---- MODULE Spec2Model ----
(***************************************************************************)
(* A model of nezha.py: one monitoring pass (session, fetch, login retry, *)
(* per-node TCP/TLS probing, record, render) and the persisted series.    *)
(*                                                                         *)
(* Conventions.                                                            *)
(*   - A Python Optional is a record [some, v]; None is [some |-> FALSE].  *)
(*   - Elapsed times are the float (time.time() - start) * 1000, kept in   *)
(*     hundredths of a millisecond; round(x, 1) yields a multiple of 10.   *)
(*   - A string that the code strips is a sequence of one-character       *)
(*     strings; a formatted timestamp is the sequence of its digits.       *)
(*   - The persisted JSON object is an insertion-ordered sequence of       *)
(*     [k, v] entries, as a Python dict read by json.loads is.             *)
(***************************************************************************)
EXTENDS Integers, Sequences, FiniteSets, TLC

\* ---------------------------------------------------------------- configuration

MAX_POINTS == 24
OFFLINE_THRESHOLD == 600
TCP_PORTS == <<443, 80, 22>>

\* ---------------------------------------------------------------- bounds

\* Longest node list a fetch response carries.
MaxNodes == 2
\* Largest minute of the wall clock; the clock shows 0 .. MaxTick.
MaxTick == 26
\* Number of record calls in a sequence of passes over the same file.
MaxRecords == 2
\* Longest stored series drawn sample by sample.
MaxDrawn == 2

\* ---------------------------------------------------------------- values

None == [some |-> FALSE, v |-> 0]
Some(x) == [some |-> TRUE, v |-> x]

\* Python truthiness of an Optional float: None and 0.0 are falsy.
Truthy(o) == o.some /\ o.v # 0

Min(S) == CHOOSE x \in S : \A y \in S : x <= y

Range(s) == {s[i] : i \in 1..Len(s)}

\* ---------------------------------------------------------------- strings

Unknown == <<"u", "n", "k", "n", "o", "w", "n">>

RECURSIVE LStrip(_)
LStrip(s) == IF s # <<>> /\ Head(s) = " " THEN LStrip(Tail(s)) ELSE s

RECURSIVE RStrip(_)
RStrip(s) ==
  IF s # <<>> /\ s[Len(s)] = " " THEN RStrip(SubSeq(s, 1, Len(s) - 1)) ELSE s

\* str.strip()
Strip(s) == RStrip(LStrip(s))

\* ---------------------------------------------------------------- last_active

\* int(v) of a float kept in tenths: truncation toward zero.
IntOfTenths(t) == IF t >= 0 THEN t \div 10 ELSE -((-t) \div 10)

\* la.kind: "none" (absent or null), "int", "float" (v in tenths),
\* "iso" (a string fromisoformat accepts, denoting epoch second v),
\* "badstr" (a string it rejects), "other" (any other JSON value).
parse_last_active(la) ==
  CASE la.kind = "none" -> 0
    [] la.kind = "int" -> la.v
    [] la.kind = "float" -> IntOfTenths(la.v)
    [] la.kind = "iso" -> la.v
    [] la.kind = "badstr" -> 0
    [] OTHER -> 0

\* ---------------------------------------------------------------- fetch_servers

Unauthorized == "ApiErrorUnauthorized"

\* A fetch that takes a body without a data list for an empty fleet.
fetch_servers_Lenient(r) ==
  IF r.net # "ok" THEN [exc |-> "RequestException", data |-> <<>>]
  ELSE IF r.body.shape = "nonjson" THEN [exc |-> "JSONDecodeError", data |-> <<>>]
  ELSE IF r.body.shape = "array" THEN [exc |-> "AttributeError", data |-> <<>>]
  ELSE IF r.body.error = "ApiErrorUnauthorized"
    THEN [exc |-> "PermissionError", data |-> <<>>]
  ELSE IF r.body.dkind # "list" THEN [exc |-> "", data |-> <<>>]
  ELSE [exc |-> "", data |-> r.body.list]

\* A list response: net is "ok" or "timeout"; body.shape is "nonjson",
\* "array" (a bare top-level array, body.list) or "object", whose "error"
\* member is body.error ("" when absent) and whose "data" member is absent
\* (dkind "absent"), the list body.list (dkind "list") or an object
\* {servers: body.list} (dkind "servers").
\* The result is the exception raised ("" for none) and the value returned.
fetch_servers(r) ==
  IF r.net # "ok" THEN [exc |-> "RequestException", data |-> <<>>]
  ELSE IF r.body.shape = "nonjson" THEN [exc |-> "JSONDecodeError", data |-> <<>>]
  ELSE IF r.body.shape = "array" THEN [exc |-> "AttributeError", data |-> <<>>]
  ELSE IF r.body.error = Unauthorized THEN [exc |-> "PermissionError", data |-> <<>>]
  ELSE IF r.body.dkind # "list" THEN [exc |-> "RuntimeError", data |-> <<>>]
  ELSE [exc |-> "", data |-> r.body.list]

\* ---------------------------------------------------------------- login

\* A login response: net, the status of the final response (requests follows
\* redirects; raise_for_status raises for 4xx and 5xx only), and whether it
\* sets the nz-jwt cookie.
\* cookie: whether the session already holds an nz-jwt cookie.
login(cookie, r) ==
  IF r.net # "ok" THEN [exc |-> "RequestException", cookie |-> cookie]
  ELSE IF r.status >= 400 THEN [exc |-> "HTTPError", cookie |-> cookie \/ r.setCookie]
  ELSE IF ~(cookie \/ r.setCookie) THEN [exc |-> "RuntimeError", cookie |-> FALSE]
  ELSE [exc |-> "", cookie |-> TRUE]

\* ---------------------------------------------------------------- TCP / TLS

\* One connection attempt as the network decides it: it succeeds after ms
\* (hundredths of a millisecond on the wall clock) or raises.
tcp_latency(o) == IF o.ok THEN Some(o.ms) ELSE None

\* outs[p]: the attempt on TCP_PORTS[p].
multi_port_tcp(outs) ==
  LET vals == {tcp_latency(outs[p]).v :
                 p \in {q \in 1..Len(TCP_PORTS) : tcp_latency(outs[q]).some}}
  IN  IF vals # {} THEN Some(Min(vals)) ELSE None

tls_latency(o) == IF o.ok THEN Some(o.ms) ELSE None

\* round(x, 1) of a value in hundredths: the nearest tenth, an exact tie to
\* the even tenth.
Round1(h) ==
  LET q == h \div 10
      r == h % 10
  IN  IF r < 5 THEN 10 * q
      ELSE IF r > 5 THEN 10 * (q + 1)
      ELSE IF q % 2 = 0 THEN 10 * q ELSE 10 * (q + 1)

\* tls or tcp or 0
OrElse(tls, tcp) == IF Truthy(tls) THEN tls.v ELSE IF Truthy(tcp) THEN tcp.v ELSE 0

\* main, lines 272-274, for one node: what was called and what is stored.
ProbeNode(tcpOuts, tlsOut) ==
  LET tcp == multi_port_tcp(tcpOuts)
      tried == Truthy(tcp)
      tls == IF tried THEN tls_latency(tlsOut) ELSE None
  IN  [tcp |-> tcp, tlsTried |-> tried, tls |-> tls,
       latency |-> Round1(OrElse(tls, tcp))]

\* ---------------------------------------------------------------- ticks

\* The wall clock at minute 0: 09:50, so that the clock passes 09:59 -> 10:00.
ClockBase == 9 * 60 + 50

\* strftime("%Y-%m-%d %H:%M") of wall-clock minute m (the date does not
\* change in the window the clock covers): the zero-padded digits HHMM.
FormatTick(m) ==
  LET t == ClockBase + m
      h == (t \div 60) % 24
      mi == t % 60
  IN  <<h \div 10, h % 10, mi \div 10, mi % 10>>

\* Python's str <: lexicographic, a proper prefix first.
RECURSIVE StrLess(_, _)
StrLess(a, b) ==
  IF b = <<>> THEN FALSE
  ELSE IF a = <<>> THEN TRUE
  ELSE IF Head(a) # Head(b) THEN Head(a) < Head(b)
  ELSE StrLess(Tail(a), Tail(b))

\* ---------------------------------------------------------------- record

\* A dict as the sequence of its entries [k, v] in insertion order.
Keys(d) == [i \in 1..Len(d) |-> d[i].k]
KeySet(d) == {d[i].k : i \in 1..Len(d)}
Get(d, k) == (CHOOSE e \in Range(d) : e.k = k).v

\* A store that appends without looking for the key.
DictSet_Append(d, k, v) == Append(d, [k |-> k, v |-> v])

\* d[k] = v: an existing key keeps its place, a new key goes last.
DictSet(d, k, v) ==
  IF k \in KeySet(d)
    THEN [i \in 1..Len(d) |-> IF d[i].k = k THEN [k |-> k, v |-> v] ELSE d[i]]
    ELSE Append(d, [k |-> k, v |-> v])

\* sorted(d)
Sorted(d) == SortSeq(Keys(d), StrLess)

\* An eviction that takes one key too many.
AllButLast_OneMore(s, n) == SubSeq(s, 1, Len(s) - n + 1)

\* sorted(d)[:-n], n > 0
AllButLast(s, n) == SubSeq(s, 1, Len(s) - n)

\* for k in ks: del d[k]
DictDel(d, ks) == SelectSeq(d, LAMBDA e : e.k \notin Range(ks))

\* The persisted file: kind "absent", "corrupt" (unreadable as JSON) or
\* "json" with the object it holds.
NoFile == [kind |-> "absent", data |-> <<>>]
Corrupt == [kind |-> "corrupt", data |-> <<>>]
Json(d) == [kind |-> "json", data |-> d]

\* record(latency_map) at formatted time ts on file f: the exception raised
\* ("" for none) and the file afterwards.
record(f, ts, latency_map) ==
  IF f.kind = "corrupt" THEN [exc |-> "JSONDecodeError", file |-> f]
  ELSE
    LET data == IF f.kind = "json" THEN f.data ELSE <<>>
        set == DictSet(data, ts, latency_map)
        pruned == DictDel(set, AllButLast(Sorted(set), MAX_POINTS))
    IN  [exc |-> "", file |-> Json(pruned)]

\* What record does to the file on disk: DATA_FILE.read_text() when the file
\* exists, DATA_FILE.write_text() when nothing was raised before it.
NoIO == [reads |-> 0, writes |-> 0]

RecordIO(n, f, exc) ==
  [reads |-> n.reads + (IF f.kind # "absent" THEN 1 ELSE 0),
   writes |-> n.writes + (IF exc = "" THEN 1 ELSE 0)]

\* ---------------------------------------------------------------- render

\* What generate_svg does to the file on disk: it reads it when it exists.
RenderIO(n, f) ==
  [reads |-> n.reads + (IF f.kind # "absent" THEN 1 ELSE 0), writes |-> n.writes]

\* generate_svg's canvas.
width == 720
height == 260
padding == 40

\* A rational n/d, d > 0; latencies are in hundredths of a millisecond.
Frac(n, d) == [n |-> n, d |-> d]

MaxOf(S) == CHOOSE m \in S : \A n \in S : n <= m

\* What generate_svg returns or raises: the ticks plotted, the names drawn,
\* the y scale and each name's polyline.
Chart(kind, exc, keys, servers, scale, lines) ==
  [kind |-> kind, exc |-> exc, keys |-> keys, servers |-> servers,
   max_latency |-> scale, lines |-> lines]

\* return "暂无数据"
NoData == Chart("nodata", "", <<>>, {}, 0, <<>>)

\* list(d.keys())[-n:]
LastKeys(d, n) == SubSeq(Keys(d), IF Len(d) > n THEN Len(d) - n + 1 ELSE 1, Len(d))

\* sorted({s for v in data.values() for s in v}), as a set
ServersOf(d) == UNION {DOMAIN d[i].v : i \in 1..Len(d)}

\* (v for d in data.values() for v in d.values()), as a set
AllValues(d) == UNION {{d[i].v[n] : n \in DOMAIN d[i].v} : i \in 1..Len(d)}

\* A scale taken from the samples alone.
max_latency_NoFloor(d) ==
  LET vals == AllValues(d)
  IN  IF vals = {} THEN 100 * 100 ELSE MaxOf(vals)

\* max(max((v for d in data.values() for v in d.values()), default=100), 100)
max_latency(d) ==
  LET vals == AllValues(d)
  IN  MaxOf({IF vals = {} THEN 100 * 100 ELSE MaxOf(vals), 100 * 100})

\* len(keys)-1 or 1
XDivisor(n) == IF n - 1 # 0 THEN n - 1 ELSE 1

\* x(i) for the i-th of n plotted ticks, i from 0
x(i, n) ==
  Frac(padding * XDivisor(n) + i * (width - 2 * padding), XDivisor(n))

\* y(v) on scale m
y(v, m) ==
  Frac((height - padding) * m - v * (height - 2 * padding), m)

\* data.get(k, {}).get(name, 0)
ValueAt(d, k, name) ==
  IF k \in KeySet(d) /\ name \in DOMAIN Get(d, k) THEN Get(d, k)[name] ELSE 0

\* generate_svg(): a division by zero raises as soon as a point is computed.
generate_svg(f) ==
  IF f.kind = "absent" THEN NoData
  ELSE IF f.kind = "corrupt"
    THEN Chart("raised", "JSONDecodeError", <<>>, {}, 0, <<>>)
  ELSE
    LET data == f.data
        keys == LastKeys(data, MAX_POINTS)
        servers == ServersOf(data)
        m == max_latency(data)
    IN  IF servers # {} /\ keys # <<>> /\ (XDivisor(Len(keys)) = 0 \/ m = 0)
          THEN Chart("raised", "ZeroDivisionError", <<>>, {}, 0, <<>>)
          ELSE Chart("svg", "", keys, servers, m,
                     [name \in servers |->
                        [i \in 1..Len(keys) |->
                           [x |-> x(i - 1, Len(keys)),
                            y |-> y(ValueAt(data, keys[i], name), m)]]])

\* The README: whether it holds both markers, and the block between them.
\* The text outside the markers is kept; with no markers the block is appended.
update_readme(content, svg) ==
  [text |-> content.text, markers |-> TRUE, block |-> svg]

\* ---------------------------------------------------------------- inputs

NoStr == [some |-> FALSE, v |-> <<>>]

Node(name, host, la) == [name |-> name, host |-> host, last_active |-> la]

LA(kind, v) == [kind |-> kind, v |-> v]

\* int(time.time()) when the loop starts.
NowSet == {2000, 2001}

\* The nodes a response may list: hosts present, empty and absent; names
\* present, padded and absent; last_active fresh, at the threshold, stale,
\* absent and unparsable, as a number and as a string.
Nodes ==
  { Node(Some(<<"a">>), Some(<<"h">>), LA("int", 2000)),
    Node(Some(<<"b">>), Some(<<"h">>), LA("int", 1400)),
    Node(Some(<<"b">>), NoStr, LA("int", 2000)),
    Node(Some(<<"a">>), Some(<<>>), LA("int", 2000)),
    Node(Some(<<" ", "a", " ">>), Some(<<"h">>), LA("iso", 1300)),
    Node(NoStr, Some(<<"h">>), LA("none", 0)),
    Node(Some(<<"b">>), Some(<<"h">>), LA("badstr", 0)),
    Node(Some(<<"a">>), Some(<<"h">>), LA("float", 14009)) }

NodeLists == UNION {[1..n -> Nodes] : n \in 0..MaxNodes}

Body(shape, error, dkind, list) ==
  [shape |-> shape, error |-> error, dkind |-> dkind, list |-> list]

\* Bodies of a list response.  A body that carries the error marker, or that
\* is answered with an error status, lists nothing.
ErrorBodies ==
  { Body("nonjson", "", "absent", <<>>),
    Body("object", "", "absent", <<>>),
    Body("object", Unauthorized, "absent", <<>>),
    Body("object", Unauthorized, "list", <<>>) }

ListBodies ==
  { Body(sh[1], "", sh[2], l) :
      sh \in {<<"object", "list">>, <<"object", "servers">>, <<"array", "absent">>},
      l \in NodeLists }

Responses ==
  { [net |-> "timeout", status |-> 0, body |-> Body("nonjson", "", "absent", <<>>)] }
  \cup { [net |-> "ok", status |-> st, body |-> b] :
           st \in {200, 401, 403}, b \in ErrorBodies }
  \cup { [net |-> "ok", status |-> 200, body |-> b] : b \in ListBodies }
  \cup { [net |-> "ok", status |-> st, body |-> b] :
           st \in {401, 403}, b \in {c \in ListBodies : Len(c.list) = 0} }

LoginResponses ==
  { [net |-> "timeout", status |-> 0, setCookie |-> FALSE] }
  \cup [net : {"ok"}, status : {200, 304, 401}, setCookie : BOOLEAN]

\* Elapsed times of a successful attempt, hundredths of a millisecond.
Times == {0, 4, 1234}

Attempts == {[ok |-> FALSE, ms |-> 0]} \cup {[ok |-> TRUE, ms |-> t] : t \in Times}

PortAttempts == [1..Len(TCP_PORTS) -> Attempts]

\* A sample as record() receives it.
Sample(name, v) == [n \in {name} |-> v]

\* The series after n passes one minute apart from minute a.
SeriesFrom(a, n) ==
  [i \in 1..n |-> [k |-> FormatTick(a + i - 1), v |-> Sample(<<"a">>, 1230)]]

Series(n) == SeriesFrom(0, n)

InitFiles == {NoFile, Corrupt, Json(Series(1)), Json(Series(MAX_POINTS))}

\* The minute at which a pass records: the newest stored one, or the next.
RunTicks == {MAX_POINTS - 1, MAX_POINTS}

OldReadme == [text |-> "t", markers |-> FALSE, block |-> NoData]

NoResponse == [net |-> "none", status |-> 0, body |-> Body("nonjson", "", "absent", <<>>)]
NoLoginResponse == [net |-> "none", status |-> 0, setCookie |-> FALSE]
NoProbeIn == [tcp |-> [p \in 1..Len(TCP_PORTS) |-> [ok |-> FALSE, ms |-> 0]],
              tls |-> [ok |-> FALSE, ms |-> 0]]
NoProbeOut == [tcp |-> None, tlsTried |-> FALSE, tls |-> None, latency |-> 0]
EmptyMap == [n \in {} |-> 0]

\* ---------------------------------------------------------------- state

VARIABLES
  pc,           \* where main is: "start", "fetch", "login", "retry", "now",
                \* "loop", "record", "render", "done", "aborted"
  jwtEnv,       \* whether NEZHA_JWT is set
  cookie,       \* whether the session holds an nz-jwt cookie
  fetchCount,   \* list requests issued
  loginCount,   \* login requests issued
  resp,         \* the last list response
  firstExc,     \* what the first fetch_servers call raised
  loginResp,    \* the login response
  servers,      \* main's servers
  idx,          \* number of nodes the loop has handled
  now_ts,       \* main's now_ts
  latency_map,  \* main's latency_map
  sock,         \* per handled node: socket calls made and whether any succeeded
  file,         \* nezha_latency.json
  file0,        \* nezha_latency.json when the pass started
  readme,       \* README.md
  readme0,      \* README.md when the pass started
  err,          \* the exception that ended the pass, "" for none
  calls,        \* record calls made
  io,           \* reads and writes of nezha_latency.json so far
  recorded,     \* wall-clock minutes stored or recorded so far
  lastTick,     \* the minute and sample of the last record call
  probeIn,      \* one node's attempts as the network decides them
  probeOut      \* what probing that node called and stored

vars == <<pc, jwtEnv, cookie, fetchCount, loginCount, resp, firstExc, loginResp,
          servers, idx, now_ts, latency_map, sock, file, file0, readme, readme0,
          err, calls, io, recorded, lastTick, probeIn, probeOut>>

runVars == <<pc, jwtEnv, cookie, fetchCount, loginCount, resp, firstExc, loginResp,
             servers, idx, now_ts, latency_map, sock, readme, readme0, err>>

\* The minutes whose formatted key f holds.
TicksOf(f) == {m \in 0..MaxTick : FormatTick(m) \in KeySet(f.data)}

NoCall == [tick |-> 0, sample |-> EmptyMap]

InitRun ==
  /\ pc = "start"
  /\ cookie = FALSE
  /\ fetchCount = 0
  /\ loginCount = 0
  /\ resp = NoResponse
  /\ firstExc = ""
  /\ loginResp = NoLoginResponse
  /\ servers = <<>>
  /\ idx = 0
  /\ now_ts = 0
  /\ latency_map = EmptyMap
  /\ sock = <<>>
  /\ readme = OldReadme
  /\ readme0 = OldReadme
  /\ err = ""

Init ==
  /\ InitRun
  /\ jwtEnv \in BOOLEAN
  /\ file \in InitFiles
  /\ file0 = file
  /\ calls = 0
  /\ io = NoIO
  /\ recorded = TicksOf(file)
  /\ lastTick = NoCall
  /\ probeIn = NoProbeIn
  /\ probeOut = NoProbeOut

\* ---------------------------------------------------------------- main

\* An assignment that keeps the value a key already has.
MapSet_KeepFirst(m, k, v) ==
  [n \in DOMAIN m \cup {k} |-> IF n \in DOMAIN m THEN m[n] ELSE v]

\* d[k] = v on a dict whose order does not matter.
MapSet(m, k, v) == [n \in DOMAIN m \cup {k} |-> IF n = k THEN v ELSE m[n]]

\* s.get("name", "unknown").strip()
NodeName(s) == Strip(IF s.name.some THEN s.name.v ELSE Unknown)

\* A test that takes an empty host for a host.
NoHost_AbsentOnly(s) == ~s.host.some

\* not ip
NoHost(s) == ~(s.host.some /\ s.host.v # <<>>)

\* A comparison that counts the threshold itself as stale.
Offline_AtThreshold(s, now) ==
  NoHost(s) \/ now - parse_last_active(s.last_active) >= OFFLINE_THRESHOLD

\* not ip or now_ts - last > OFFLINE_THRESHOLD
Offline(s, now) ==
  NoHost(s) \/ now - parse_last_active(s.last_active) > OFFLINE_THRESHOLD

Abort(e) == pc' = "aborted" /\ err' = e

\* A session creation that logs in to obtain the credential itself.
CreateSession_LogsIn ==
  /\ pc = "start"
  /\ cookie' = TRUE
  /\ loginCount' = loginCount + 1
  /\ pc' = "fetch"
  /\ UNCHANGED <<jwtEnv, fetchCount, resp, firstExc, loginResp, servers,
                 idx, now_ts, latency_map, sock, file, file0, readme, readme0, err,
                 calls, io, recorded, lastTick, probeIn, probeOut>>

\* session = create_session()
CreateSession ==
  /\ pc = "start"
  /\ cookie' = jwtEnv
  /\ pc' = "fetch"
  /\ UNCHANGED <<jwtEnv, fetchCount, loginCount, resp, firstExc, loginResp, servers,
                 idx, now_ts, latency_map, sock, file, file0, readme, readme0, err,
                 calls, io, recorded, lastTick, probeIn, probeOut>>

\* try: servers = fetch_servers(session) / except PermissionError
Fetch ==
  /\ pc = "fetch"
  /\ \E r \in Responses :
       LET out == fetch_servers(r)
       IN  /\ resp' = r
           /\ fetchCount' = fetchCount + 1
           /\ firstExc' = out.exc
           /\ IF out.exc = "" THEN pc' = "now" /\ servers' = out.data /\ err' = err
              ELSE IF out.exc = "PermissionError"
                THEN pc' = "login" /\ UNCHANGED <<servers, err>>
              ELSE Abort(out.exc) /\ UNCHANGED servers
  /\ UNCHANGED <<jwtEnv, cookie, loginCount, loginResp, idx, now_ts, latency_map,
                 sock, file, file0, readme, readme0, calls, io, recorded, lastTick,
                 probeIn, probeOut>>

\* login(session), in the except branch
Login ==
  /\ pc = "login"
  /\ \E r \in LoginResponses :
       LET out == login(cookie, r)
       IN  /\ loginResp' = r
           /\ loginCount' = loginCount + 1
           /\ cookie' = out.cookie
           /\ IF out.exc = "" THEN pc' = "retry" /\ err' = err ELSE Abort(out.exc)
  /\ UNCHANGED <<jwtEnv, fetchCount, resp, firstExc, servers, idx, now_ts,
                 latency_map, sock, file, file0, readme, readme0, calls, io, recorded,
                 lastTick, probeIn, probeOut>>

\* A retry that answers a second PermissionError with another login.
Retry_LoginAgain ==
  /\ pc = "retry"
  /\ \E r \in Responses :
       LET out == fetch_servers(r)
       IN  /\ resp' = r
           /\ fetchCount' = fetchCount + 1
           /\ IF out.exc = "" THEN pc' = "now" /\ servers' = out.data /\ err' = err
              ELSE IF out.exc = "PermissionError" /\ loginCount < 3
                THEN pc' = "login" /\ UNCHANGED <<servers, err>>
              ELSE Abort(out.exc) /\ UNCHANGED servers
  /\ UNCHANGED <<jwtEnv, cookie, loginCount, firstExc, loginResp, idx, now_ts,
                 latency_map, sock, file, file0, readme, readme0, calls, io, recorded,
                 lastTick, probeIn, probeOut>>

\* servers = fetch_servers(session), in the except branch
Retry ==
  /\ pc = "retry"
  /\ \E r \in Responses :
       LET out == fetch_servers(r)
       IN  /\ resp' = r
           /\ fetchCount' = fetchCount + 1
           /\ IF out.exc = "" THEN pc' = "now" /\ servers' = out.data /\ err' = err
              ELSE Abort(out.exc) /\ UNCHANGED servers
  /\ UNCHANGED <<jwtEnv, cookie, loginCount, firstExc, loginResp, idx, now_ts,
                 latency_map, sock, file, file0, readme, readme0, calls, io, recorded,
                 lastTick, probeIn, probeOut>>

\* now_ts = int(time.time()); latency_map = {}
ReadClock ==
  /\ pc = "now"
  /\ now_ts' \in NowSet
  /\ latency_map' = EmptyMap
  /\ pc' = "loop"
  /\ UNCHANGED <<jwtEnv, cookie, fetchCount, loginCount, resp, firstExc, loginResp,
                 servers, idx, sock, file, file0, readme, readme0, err, calls, io,
                 recorded, lastTick, probeIn, probeOut>>

\* What the loop body leaves behind for a node it does not probe.
Skipped == [tcp |-> 0, tls |-> 0, ok |-> FALSE, latency |-> 0]

\* What the loop body leaves behind for a node it probes: the connects and
\* handshakes it made, whether one succeeded, and the value stored.
Probed(tcpOuts, tlsOut) ==
  LET p == ProbeNode(tcpOuts, tlsOut)
  IN  [tcp |-> Len(TCP_PORTS),
       tls |-> IF p.tlsTried THEN 1 ELSE 0,
       ok |-> (\E q \in 1..Len(TCP_PORTS) : tcpOuts[q].ok) \/ (p.tlsTried /\ tlsOut.ok),
       latency |-> p.latency]

\* Everything probing a node can leave behind, over all the network may do.
ProbedOutcomes ==
  {Probed(tcpOuts, tlsOut) : tcpOuts \in PortAttempts, tlsOut \in Attempts}

\* A loop body whose connects are not guarded: a failed connect raises.
LoopBody_Unguarded ==
  /\ pc = "loop"
  /\ idx < Len(servers)
  /\ LET s == servers[idx + 1]
     IN  IF Offline(s, now_ts)
           THEN /\ latency_map' = MapSet(latency_map, NodeName(s), 0)
                /\ sock' = Append(sock, Skipped)
                /\ idx' = idx + 1
                /\ UNCHANGED <<pc, err>>
           ELSE \E tcpOuts \in PortAttempts, tlsOut \in Attempts :
                  IF \E q \in 1..Len(TCP_PORTS) : ~tcpOuts[q].ok
                    THEN /\ Abort("OSError")
                         /\ UNCHANGED <<latency_map, sock, idx>>
                    ELSE /\ latency_map' =
                              MapSet(latency_map, NodeName(s),
                                     Probed(tcpOuts, tlsOut).latency)
                         /\ sock' = Append(sock, Probed(tcpOuts, tlsOut))
                         /\ idx' = idx + 1
                         /\ UNCHANGED <<pc, err>>
  /\ UNCHANGED <<jwtEnv, cookie, fetchCount, loginCount, resp, firstExc,
                 loginResp, servers, now_ts, file, file0, readme, readme0,
                 calls, io, recorded, lastTick, probeIn, probeOut>>

\* One iteration of: for s in servers
LoopBody ==
  /\ pc = "loop"
  /\ idx < Len(servers)
  /\ LET s == servers[idx + 1]
     IN  \E done \in IF Offline(s, now_ts) THEN {Skipped} ELSE ProbedOutcomes :
           /\ latency_map' = MapSet(latency_map, NodeName(s), done.latency)
           /\ sock' = Append(sock, done)
  /\ idx' = idx + 1
  /\ UNCHANGED <<pc, jwtEnv, cookie, fetchCount, loginCount, resp, firstExc,
                 loginResp, servers, now_ts, file, file0, readme, readme0, err,
                 calls, io, recorded, lastTick, probeIn, probeOut>>

\* A loop left before every node is handled.
LoopEnd_Early ==
  /\ pc = "loop"
  /\ pc' = "record"
  /\ UNCHANGED <<jwtEnv, cookie, fetchCount, loginCount, resp, firstExc, loginResp,
                 servers, idx, now_ts, latency_map, sock, file, file0, readme,
                 readme0, err, calls, io, recorded, lastTick, probeIn, probeOut>>

\* The loop is exhausted.
LoopEnd ==
  /\ pc = "loop"
  /\ idx = Len(servers)
  /\ pc' = "record"
  /\ UNCHANGED <<jwtEnv, cookie, fetchCount, loginCount, resp, firstExc, loginResp,
                 servers, idx, now_ts, latency_map, sock, file, file0, readme,
                 readme0, err, calls, io, recorded, lastTick, probeIn, probeOut>>

\* record(latency_map)
Record ==
  /\ pc = "record"
  /\ \E t \in RunTicks :
       LET out == record(file, FormatTick(t), latency_map)
       IN  /\ calls' = calls + 1
           /\ lastTick' = [tick |-> t, sample |-> latency_map]
           /\ io' = RecordIO(io, file, out.exc)
           /\ IF out.exc = ""
                THEN /\ file' = out.file
                     /\ recorded' = recorded \cup {t}
                     /\ pc' = "render"
                     /\ err' = err
                ELSE Abort(out.exc) /\ UNCHANGED <<file, recorded>>
  /\ UNCHANGED <<jwtEnv, cookie, fetchCount, loginCount, resp, firstExc, loginResp,
                 servers, idx, now_ts, latency_map, sock, file0, readme, readme0,
                 probeIn, probeOut>>

\* update_readme(generate_svg())
Render ==
  /\ pc = "render"
  /\ LET svg == generate_svg(file)
     IN  IF svg.exc = ""
           THEN /\ readme' = update_readme(readme, svg)
                /\ pc' = "done"
                /\ err' = err
           ELSE Abort(svg.exc) /\ readme' = readme
  /\ io' = RenderIO(io, file)
  /\ UNCHANGED <<jwtEnv, cookie, fetchCount, loginCount, resp, firstExc, loginResp,
                 servers, idx, now_ts, latency_map, sock, file, file0, readme0,
                 calls, recorded, lastTick, probeIn, probeOut>>

Next ==
  \/ CreateSession
  \/ Fetch
  \/ Login
  \/ Retry
  \/ ReadClock
  \/ LoopBody
  \/ LoopEnd
  \/ Record
  \/ Render

Spec == Init /\ [][Next]_vars

\* ---------------------------------------------------------------- record, pass after pass

\* The samples of successive passes, and the files the first of them finds.
Samples == {Sample(<<"a">>, 0), Sample(<<"a">>, 1230)}

SeriesFiles ==
  {NoFile, Json(SeriesFrom(2, MAX_POINTS))}
  \cup {Json(Series(n)) : n \in {0, 1, MAX_POINTS - 1, MAX_POINTS}}

InitRecord ==
  /\ InitRun
  /\ jwtEnv = FALSE
  /\ file \in SeriesFiles
  /\ file0 = file
  /\ calls = 0
  /\ io = NoIO
  /\ recorded = TicksOf(file)
  /\ lastTick = NoCall
  /\ probeIn = NoProbeIn
  /\ probeOut = NoProbeOut

\* record(latency_map) of one more pass, at whatever minute the clock shows.
RecordCall ==
  /\ calls < MaxRecords
  /\ \E t \in 0..MaxTick, m \in Samples :
       LET out == record(file, FormatTick(t), m)
       IN  /\ calls' = calls + 1
           /\ lastTick' = [tick |-> t, sample |-> m]
           /\ io' = RecordIO(io, file, out.exc)
           /\ file' = out.file
           /\ recorded' = IF out.exc = "" THEN recorded \cup {t} ELSE recorded
  /\ UNCHANGED <<runVars, file0, probeIn, probeOut>>

SpecRecord == InitRecord /\ [][RecordCall]_vars

\* ---------------------------------------------------------------- probing one node

InitProbe ==
  /\ InitRun
  /\ jwtEnv = FALSE
  /\ file = NoFile
  /\ file0 = file
  /\ calls = 0
  /\ io = NoIO
  /\ recorded = {}
  /\ lastTick = NoCall
  /\ probeIn \in [tcp : PortAttempts, tls : Attempts]
  /\ probeOut = NoProbeOut

\* tcp = multi_port_tcp(ip); tls = ...; latency_map[name] = ... for one node.
ProbeCall ==
  /\ idx = 0
  /\ probeOut' = ProbeNode(probeIn.tcp, probeIn.tls)
  /\ idx' = 1
  /\ UNCHANGED <<pc, jwtEnv, cookie, fetchCount, loginCount, resp, firstExc,
                 loginResp, servers, now_ts, latency_map, sock, file, file0, readme,
                 readme0, err, calls, io, recorded, lastTick, probeIn>>

SpecProbe == InitProbe /\ [][ProbeCall]_vars

\* ---------------------------------------------------------------- rendering a stored series

\* The series generate_svg may find: none, one of up to MaxDrawn ticks whose
\* samples name any of two nodes with a latency of 0, 12.3 or 250 ms each,
\* and a full one.
DrawnNames == {<<"a">>, <<"b">>}
DrawnValues == {0, 1230, 25000}
DrawnSamples == UNION {[S -> DrawnValues] : S \in SUBSET DrawnNames}

DrawnSeries(n) ==
  {[i \in 1..n |-> [k |-> FormatTick(i - 1), v |-> ss[i]]] : ss \in [1..n -> DrawnSamples]}

RenderFiles ==
  {NoFile, Json(Series(MAX_POINTS))}
  \cup {Json(d) : d \in UNION {DrawnSeries(n) : n \in 0..MaxDrawn}}

InitRender ==
  /\ pc = "render"
  /\ jwtEnv = FALSE
  /\ cookie = FALSE
  /\ fetchCount = 0
  /\ loginCount = 0
  /\ resp = NoResponse
  /\ firstExc = ""
  /\ loginResp = NoLoginResponse
  /\ servers = <<>>
  /\ idx = 0
  /\ now_ts = 0
  /\ latency_map = EmptyMap
  /\ sock = <<>>
  /\ readme = OldReadme
  /\ readme0 = OldReadme
  /\ err = ""
  /\ file \in RenderFiles
  /\ file0 = file
  /\ calls = 0
  /\ io = NoIO
  /\ recorded = TicksOf(file)
  /\ lastTick = NoCall
  /\ probeIn = NoProbeIn
  /\ probeOut = NoProbeOut

\* update_readme(generate_svg()) on whatever series is stored.
SpecRender == InitRender /\ [][Render]_vars

\* ================================================================ claims

\* The n chronologically largest minutes of S.
Latest(S, n) == {m \in S : Cardinality({j \in S : j > m}) < n}

\* C1: after any sequence of record calls the persisted series holds at most
\* MAX_POINTS entries, one per key, and its keys are those of the MAX_POINTS
\* chronologically largest distinct minutes recorded so far (all of them
\* while there are no more than MAX_POINTS), the minute just recorded among
\* them whenever it is one of the largest.
C1_BoundedLatest ==
  calls >= 1 =>
    /\ file.kind = "json"
    /\ Len(file.data) <= MAX_POINTS
    /\ Cardinality(KeySet(file.data)) = Len(file.data)
    /\ KeySet(file.data) = {FormatTick(m) : m \in Latest(recorded, MAX_POINTS)}
    /\ (Cardinality(recorded) > MAX_POINTS => Len(file.data) = MAX_POINTS)
    /\ (lastTick.tick \in Latest(recorded, MAX_POINTS) =>
          /\ FormatTick(lastTick.tick) \in KeySet(file.data)
          /\ Get(file.data, FormatTick(lastTick.tick)) = lastTick.sample)

\* C1 witness: more than MAX_POINTS distinct minutes have been recorded, the
\* last of them earlier than one already stored, and the oldest is evicted.
C1_Witness ==
  /\ calls = MaxRecords
  /\ Cardinality(recorded) > MAX_POINTS
  /\ Len(file.data) = MAX_POINTS
  /\ lastTick.tick < MAX_POINTS
  /\ FormatTick(lastTick.tick) \in KeySet(file.data)
  /\ FormatTick(0) \notin KeySet(file.data)

\* A response that fetch_servers answers with the authorization-required
\* signal main catches.
AuthRequired(r) ==
  r.net = "ok" /\ r.body.shape = "object" /\ r.body.error = Unauthorized

\* What the login request of this pass met: a transport error, an error
\* status, or a session left without the nz-jwt cookie.
LoginFailed ==
  /\ loginCount >= 1
  /\ \/ loginResp.net # "ok"
     \/ loginResp.status >= 400
     \/ ~(jwtEnv \/ loginResp.setCookie)

\* C2: an authorization-required first fetch is followed by exactly one
\* login and, the login succeeding, exactly one more fetch; a second
\* authorization-required outcome aborts the pass with nothing recorded or
\* rendered; a pass issues at most two fetches and at most one login.
C2_LoginOnceRetryOnce ==
  /\ fetchCount <= 2
  /\ loginCount <= 1
  /\ (loginCount = 1 => firstExc = "PermissionError")
  /\ (firstExc = "PermissionError" => (pc = "login" /\ loginCount = 0) \/ loginCount = 1)
  /\ (fetchCount = 2 => loginCount = 1 /\ ~LoginFailed)
  /\ (loginCount = 1 /\ ~LoginFailed => (pc = "retry" /\ fetchCount = 1) \/ fetchCount = 2)
  /\ (fetchCount = 2 /\ AuthRequired(resp) =>
        /\ pc = "aborted"
        /\ calls = 0
        /\ file = file0
        /\ readme = readme0)

\* C2 witness: the retried fetch is answered authorization-required again.
C2_Witness ==
  /\ fetchCount = 2
  /\ loginCount = 1
  /\ AuthRequired(resp)
  /\ pc = "aborted"

\* C3: a first list response with status 401 or 403, and one with status 200
\* whose body carries the unauthorized marker, raise the same signal, the one
\* main answers with a login and a retry.
C3_StatusOrMarkerSameSignal ==
  (/\ fetchCount = 1
   /\ resp.net = "ok"
   /\ resp.status \in {401, 403} \/ (resp.status = 200 /\ AuthRequired(resp)))
  => /\ firstExc = "PermissionError"
     /\ pc = "login" \/ loginCount = 1

\* A response in one of the three supported shapes: {data: L},
\* {data: {servers: L}} or the bare array L.
Supported(r) ==
  /\ r.net = "ok"
  /\ r.status = 200
  /\ r.body.error = ""
  /\ \/ r.body.shape = "array"
     \/ r.body.shape = "object" /\ r.body.dkind \in {"list", "servers"}

\* C4: whichever of the three supported shapes carries the node list L,
\* fetch_servers returns L; any other body that is not an authorization
\* failure ends the pass before anything is recorded.
C4_ShapesNormalize ==
  /\ (fetchCount >= 1 /\ Supported(resp)) =>
        /\ servers = resp.body.list
        /\ (pc = "aborted" => calls = 1)
  /\ (fetchCount >= 1 /\ resp.net = "ok" /\ resp.status = 200
        /\ ~Supported(resp) /\ ~AuthRequired(resp)) =>
        pc = "aborted" /\ calls = 0

\* The nodes handled so far that share node i's name and come after it.
LaterSameName(i) ==
  {j \in (i + 1)..Len(sock) : NodeName(servers[j]) = NodeName(servers[i])}

HostMissing(s) == ~s.host.some \/ s.host.v = <<>>

\* C5: a node whose host is absent or empty is handled with no connect and
\* no handshake, and 0 is stored under its name (and recorded, unless a later
\* node of the same name overwrites it).
C5_NoHostNoSocket ==
  \A i \in 1..Len(sock) :
    HostMissing(servers[i]) =>
      /\ sock[i].tcp = 0
      /\ sock[i].tls = 0
      /\ (LaterSameName(i) = {} => latency_map[NodeName(servers[i])] = 0)
      /\ (LaterSameName(i) = {} /\ calls = 1 =>
            lastTick.sample[NodeName(servers[i])] = 0)

\* C5 witness: a pass completed in which a node with an empty host string
\* was recorded as 0 beside a probed node.
C5_Witness ==
  /\ pc = "done"
  /\ \E i, j \in 1..Len(sock) :
       /\ servers[i].host = Some(<<>>)
       /\ sock[j].tcp > 0
       /\ NodeName(servers[i]) # NodeName(servers[j])
       /\ Get(file.data, FormatTick(lastTick.tick))[NodeName(servers[i])] = 0

\* now - lastActiveAt in tenths of a second, a missing or unparsable
\* last_active counting as epoch 0.
AgeTenths(s, now) ==
  LET la == s.last_active
  IN  10 * now - (CASE la.kind \in {"int", "iso"} -> 10 * la.v
                    [] la.kind = "float" -> la.v
                    [] OTHER -> 0)

\* C6: a node with a host is stored as 0 without any connect exactly when
\* now - lastActiveAt exceeds OFFLINE_THRESHOLD; otherwise every TCP port is
\* tried.
C6_StaleIffSkipped ==
  \A i \in 1..Len(sock) :
    ~HostMissing(servers[i]) =>
      IF AgeTenths(servers[i], now_ts) > 10 * OFFLINE_THRESHOLD
        THEN /\ sock[i].tcp = 0
             /\ sock[i].tls = 0
             /\ (LaterSameName(i) = {} => latency_map[NodeName(servers[i])] = 0)
        ELSE sock[i].tcp = Len(TCP_PORTS)

\* C6 witness: in one pass a node active exactly OFFLINE_THRESHOLD seconds
\* ago was probed and a node with an unparsable last_active was not.
C6_Witness ==
  \E i, j \in 1..Len(sock) :
    /\ ~HostMissing(servers[i])
    /\ AgeTenths(servers[i], now_ts) = 10 * OFFLINE_THRESHOLD
    /\ sock[i].tcp = Len(TCP_PORTS)
    /\ ~HostMissing(servers[j])
    /\ servers[j].last_active.kind = "badstr"
    /\ sock[j].tcp = 0

\* C7: for a probed node the handshake is attempted exactly when some
\* connect succeeded, and the value stored is (to one decimal) the handshake
\* time if it succeeded, else the smallest successful connect time, else 0.
C7_TlsElseMinTcpElseZero ==
  idx = 1 =>
    LET oks == {q \in 1..Len(TCP_PORTS) : probeIn.tcp[q].ok}
    IN  /\ probeOut.tlsTried <=> oks # {}
        /\ probeOut.latency =
             IF oks # {} /\ probeIn.tls.ok THEN Round1(probeIn.tls.ms)
             ELSE IF oks # {} THEN Round1(Min({probeIn.tcp[q].ms : q \in oks}))
             ELSE 0

\* C8: a pass that finds the persisted file unreadable as JSON does not
\* fail: record persists a series holding only the current tick, and the
\* pass goes on to render.
C8_CorruptReadAsEmpty ==
  (file0.kind = "corrupt" /\ calls = 1) =>
    /\ pc \in {"render", "done"}
    /\ file = Json(<<[k |-> FormatTick(lastTick.tick), v |-> lastTick.sample]>>)

\* A list response that is no node list under any reading: a transport
\* error, a body that is not JSON, or an object with neither data nor marker.
Unusable(r) ==
  \/ r.net = "timeout"
  \/ r.net = "ok" /\ r.body.shape = "nonjson"
  \/ r.net = "ok" /\ r.body.shape = "object" /\ r.body.error = "" /\ r.body.dkind = "absent"

\* C9: once the login failed, a retried fetch was answered
\* authorization-required, or a fetch met an unusable response, the pass is
\* aborted with no node handled, no socket call, no record call, and the
\* persisted series and the README as they were.
C9_FailureLeavesNoTrace ==
  (\/ LoginFailed
   \/ fetchCount = 2 /\ AuthRequired(resp)
   \/ fetchCount >= 1 /\ Unusable(resp))
  => /\ pc = "aborted"
     /\ idx = 0
     /\ sock = <<>>
     /\ calls = 0
     /\ file = file0
     /\ readme = readme0

\* C9 witness: a pass over an existing series ended by a login that was
\* answered 200 and left the session without the cookie.
C9_Witness ==
  /\ pc = "aborted"
  /\ file0.kind = "json"
  /\ LoginFailed
  /\ loginResp.net = "ok" /\ loginResp.status = 200

\* C10: no failed connect or handshake ends the pass (a pass is only ever
\* aborted before the loop starts or by record); a handled node none of whose
\* attempts succeeded is stored as 0; and when record is called every fetched
\* node has been handled and the sample has an entry for every fetched name.
C10_ProbeFailureContained ==
  /\ (pc = "aborted" => now_ts = 0 \/ calls = 1)
  /\ \A i \in 1..Len(sock) :
       (sock[i].tcp > 0 /\ ~sock[i].ok) =>
         /\ sock[i].tls = 0
         /\ (LaterSameName(i) = {} => latency_map[NodeName(servers[i])] = 0)
  /\ (pc = "record" \/ calls = 1) =>
       /\ Len(sock) = Len(servers)
       /\ DOMAIN latency_map = {NodeName(servers[i]) : i \in 1..Len(servers)}
  /\ (calls = 1 => lastTick.sample = latency_map)

\* C10 witness: a pass completed in which every attempt on one node failed
\* and another node was measured.
C10_Witness ==
  /\ pc = "done"
  /\ \E i, j \in 1..Len(sock) :
       /\ sock[i].tcp > 0 /\ ~sock[i].ok
       /\ sock[j].ok /\ sock[j].latency > 0
       /\ NodeName(servers[i]) # NodeName(servers[j])
       /\ Get(file.data, FormatTick(lastTick.tick))[NodeName(servers[i])] = 0
       /\ Get(file.data, FormatTick(lastTick.tick))[NodeName(servers[j])] > 0

\* A record call made at the minute of the call before it.
SameTickAgain ==
  calls >= 1 /\ calls' = calls + 1 /\ lastTick'.tick = lastTick.tick

\* The entries of d other than the one of key k, in order.
Others(d, k) == SelectSeq(d, LAMBDA e : e.k # k)

\* C11 as stated: a second record call at the same minute leaves the number
\* of entries unchanged and leaves exactly one entry for that minute, holding
\* the second sample; the other entries are unchanged.
C11_SameTickExactlyOne ==
  [][SameTickAgain =>
       /\ Len(file'.data) = Len(file.data)
       /\ Len(SelectSeq(file'.data, LAMBDA e : e.k = FormatTick(lastTick.tick))) = 1
       /\ Get(file'.data, FormatTick(lastTick.tick)) = lastTick'.sample
       /\ Others(file'.data, FormatTick(lastTick.tick))
            = Others(file.data, FormatTick(lastTick.tick))]_vars

\* C11 as amended: a second record call at the same minute leaves the number
\* of entries and every other entry unchanged, and leaves at most one entry
\* for that minute: exactly one, in the same place and holding the second
\* sample, when the first call kept the minute; none when the first call
\* evicted it as older than MAX_POINTS stored minutes.
C11_SameTickOverwrites ==
  [][SameTickAgain =>
       LET k == FormatTick(lastTick.tick)
       IN  /\ Len(file'.data) = Len(file.data)
           /\ Keys(file'.data) = Keys(file.data)
           /\ Others(file'.data, k) = Others(file.data, k)
           /\ IF k \in KeySet(file.data)
                THEN /\ Len(SelectSeq(file'.data, LAMBDA e : e.k = k)) = 1
                     /\ Get(file'.data, k) = lastTick'.sample
                ELSE /\ k \notin KeySet(file'.data)
                     /\ Len(file.data) = MAX_POINTS
                     /\ \A j \in KeySet(file.data) : StrLess(k, j)]_vars

\* C11 witness: two calls on an absent file left one entry, so both were made
\* at the same minute, and the entry holds the second sample, which differs
\* from the first.
C11_Witness ==
  /\ file0.kind = "absent"
  /\ calls = 2
  /\ Len(file.data) = 1
  /\ file.data[1].v = lastTick.sample
  /\ lastTick.sample = Sample(<<"a">>, 0)

\* C12: in the sample a pass records, a node for which some connect or
\* handshake succeeded has a value strictly greater than 0 (0 is only ever
\* the mark of an unreachable or offline node).
C12_MeasuredIsPositive ==
  calls = 1 =>
    \A i \in 1..Len(sock) :
      (sock[i].ok /\ LaterSameName(i) = {}) =>
        lastTick.sample[NodeName(servers[i])] > 0

\* C13: a login answered with a status outside 2xx, or answered 2xx and
\* leaving the session without the nz-jwt cookie, raises: no list request
\* follows it and the pass is aborted.
C13_LoginErrorStopsRun ==
  (/\ loginCount = 1
   /\ loginResp.net = "ok"
   /\ loginResp.status \notin 200..299 \/ ~cookie)
  => /\ pc = "aborted"
     /\ fetchCount = 1
     /\ calls = 0

\* The number of statements main may still run: those after its position,
\* with one loop iteration per node not yet handled (per node a response may
\* list, while no list is fetched yet).
StepsLeft ==
  CASE pc = "start" -> 8 + MaxNodes
    [] pc = "fetch" -> 7 + MaxNodes
    [] pc = "login" -> 6 + MaxNodes
    [] pc = "retry" -> 5 + MaxNodes
    [] pc = "now" -> 4 + Len(servers)
    [] pc = "loop" -> 3 + Len(servers) - idx
    [] pc = "record" -> 2
    [] pc = "render" -> 1
    [] OTHER -> 0

\* C14: every pass ends, completed or aborted: each step, whatever the
\* network answers (a timeout included), leaves strictly fewer statements to
\* run, and a pass that is neither completed nor aborted can take a step.  On
\* the way it issues at most two list requests and one login, and for each
\* node at most one connect per configured port and one handshake.
C14_Terminates ==
  /\ [][StepsLeft' < StepsLeft]_vars
  /\ [](/\ StepsLeft >= 0
        /\ (StepsLeft = 0 <=> pc \in {"done", "aborted"})
        /\ (pc \notin {"done", "aborted"} => ENABLED Next)
        /\ fetchCount <= 2
        /\ loginCount <= 1
        /\ Len(sock) <= Len(servers)
        /\ \A i \in 1..Len(sock) :
             sock[i].tcp <= Len(TCP_PORTS) /\ sock[i].tls <= 1)

\* C14 witness: a pass completed after two list requests, a login, and for
\* each of its nodes every connect and the handshake.
C14_Witness ==
  /\ pc = "done"
  /\ fetchCount = 2
  /\ loginCount = 1
  /\ Len(sock) = MaxNodes
  /\ \A i \in 1..Len(sock) : sock[i].tcp = Len(TCP_PORTS) /\ sock[i].tls = 1

\* The wall-clock minute a stored key was formatted from.
MinuteOf(k) == CHOOSE m \in 0..MaxTick : FormatTick(m) = k

\* ks lists strictly later and later minutes.
Chronological(ks) ==
  \A i, j \in 1..Len(ks) : i < j => MinuteOf(ks[i]) < MinuteOf(ks[j])

\* C15: after any sequence of record calls the persisted series in stored
\* order, and the ticks the renderer plots from left to right, are in
\* strictly increasing chronological order, also after a call made at a
\* minute earlier than one already stored.
C15_StoredChronological ==
  calls >= 1 =>
    /\ Chronological(Keys(file.data))
    /\ Chronological(generate_svg(file).keys)

\* What C16 says of the order of a pass: record is invoked once in a
\* completed pass, never before every fetched node has been handled, and the
\* README is only written after record.
RecordOnceInOrder ==
  /\ calls <= 1
  /\ (pc = "done" => calls = 1)
  /\ (calls = 1 => idx = Len(servers) /\ Len(sock) = Len(servers))
  /\ (pc \in {"render", "done"} => calls = 1 /\ io.writes = 1)
  /\ (readme # readme0 => pc = "done" /\ calls = 1)
  /\ io.writes <= 1

C17_LoginOnlyAfterUnauthorized ==
  /\ [][/\ (pc = "start" =>
              /\ fetchCount' = 0 /\ loginCount' = 0
              /\ cookie' = jwtEnv /\ resp' = NoResponse
              /\ loginResp' = NoLoginResponse)
        /\ (loginCount' # loginCount =>
              /\ fetchCount = 1
              /\ firstExc = "PermissionError"
              /\ resp.net = "ok"
              /\ resp.body.error = Unauthorized)]_vars
  /\ [](/\ (fetchCount = 0 => loginCount = 0)
        /\ (fetchCount >= 1 /\ firstExc # "PermissionError" => loginCount = 0)
        /\ (loginCount = 0 => cookie = (jwtEnv /\ pc # "start")))

\* C17 witnesses: with NEZHA_JWT set, a pass that logged in after its first
\* fetch was refused and completed.
C17_Witness ==
  /\ jwtEnv
  /\ pc = "done"
  /\ loginCount = 1
  /\ fetchCount = 2
  /\ firstExc = "PermissionError"

\* The stripped names of the fetched nodes.
FetchedNames == {NodeName(servers[i]) : i \in 1..Len(servers)}

\* C18: the sample passed to record has exactly one entry per distinct
\* stripped name among the fetched nodes, and under a name several nodes
\* share it holds the value computed for the last of them in the fetch result.
C18_OneEntryPerNameLastWins ==
  calls = 1 =>
    /\ Len(sock) = Len(servers)
    /\ DOMAIN lastTick.sample = FetchedNames
    /\ \A i \in 1..Len(servers) :
         LaterSameName(i) = {} =>
           lastTick.sample[NodeName(servers[i])] = sock[i].latency

\* C18 witnesses: two fetched nodes whose names differ only by padding and
\* whose values differ were recorded under one name.
C18_Witness ==
  /\ calls = 1
  /\ Len(servers) = 2
  /\ servers[1].name # servers[2].name
  /\ NodeName(servers[1]) = NodeName(servers[2])
  /\ sock[1].latency # sock[2].latency
  /\ lastTick.sample[NodeName(servers[2])] = sock[2].latency
  /\ file.kind = "json"
  /\ pc = "render"
  /\ Get(file.data, FormatTick(lastTick.tick)) = lastTick.sample

\* The stored series holds no tick: there is no file, or a file of no entry.
EmptySeries(f) == f.kind = "absent" \/ (f.kind = "json" /\ f.data = <<>>)

\* C19: rendering an empty series (no file, or a file holding zero ticks)
\* raises nothing and returns the "no data" result, and rendering a series of
\* a single tick raises nothing either.
C19_EmptyIsNoData ==
  pc \in {"done", "aborted"} =>
    /\ (EmptySeries(file) => pc = "done" /\ err = "" /\ readme.block = NoData)
    /\ (file.kind = "json" /\ Len(file.data) = 1 => pc = "done" /\ err = "")

\* n/d lies in lo..hi.
Within(r, lo, hi) == r.d > 0 /\ lo * r.d <= r.n /\ r.n <= hi * r.d

\* C20: in the chart of a stored series the y scale is the larger of 100 ms
\* and the largest latency stored, there is one polyline per name in the
\* union of the samples' keys, each with one point per plotted tick, a name
\* missing at a tick is plotted as 0 (on the baseline), and every point lies
\* inside the padded canvas.
C20_ScaleLinesInsideCanvas ==
  pc = "done" /\ file.kind = "json" =>
    LET c == readme.block
        d == file.data
    IN  /\ c.kind = "svg"
        /\ c.max_latency >= 100 * 100
        /\ \A i \in 1..Len(d) : \A n \in DOMAIN d[i].v : d[i].v[n] <= c.max_latency
        /\ \/ c.max_latency = 100 * 100
           \/ \E i \in 1..Len(d) : \E n \in DOMAIN d[i].v : d[i].v[n] = c.max_latency
        /\ Len(c.keys) = Min({Len(d), MAX_POINTS})
        /\ DOMAIN c.lines = UNION {DOMAIN d[i].v : i \in 1..Len(d)}
        /\ \A name \in DOMAIN c.lines :
             /\ Len(c.lines[name]) = Len(c.keys)
             /\ \A i \in 1..Len(c.keys) :
                  LET pt == c.lines[name][i]
                      smp == Get(d, c.keys[i])
                  IN  /\ Within(pt.x, padding, width - padding)
                      /\ Within(pt.y, padding, height - padding)
                      /\ (name \notin DOMAIN smp =>
                            pt.y.n = (height - padding) * pt.y.d)
                      /\ (name \in DOMAIN smp =>
                            (height - padding) * pt.y.d - pt.y.n =
                              smp[name] * (height - 2 * padding))
                      /\ (i = 1 => pt.x.n = padding * pt.x.d)
                      /\ (i = Len(c.keys) /\ i > 1 =>
                            pt.x.n = (width - padding) * pt.x.d)

\* C20 witnesses: a drawn chart of two ticks and two names, scaled by a
\* latency above 100 ms that one name reaches, the other name missing at a tick.
C20_Witness ==
  /\ pc = "done"
  /\ file.kind = "json"
  /\ Len(file.data) = 2
  /\ readme.block.max_latency = 25000
  /\ DOMAIN readme.block.lines = DrawnNames
  /\ DOMAIN file.data[1].v = {<<"a">>}
  /\ readme.block.lines[<<"a">>][2].y = Frac(padding * 25000, 25000)
  /\ readme.block.lines[<<"b">>][1].y = Frac((height - padding) * 25000, 25000)

====
